---------------------------- MODULE Spec2Model ----------------------------
(***************************************************************************)
(* Model of extensions/multiplacement/src/_multiplacement.c: the placement *)
(* of a chain of recognizers (PSSMs) joined by variable-length connectors. *)
(*                                                                         *)
(* Three specifications share the variables below:                         *)
(*   Spec      py_calculate after fill_matrix: the single-recognizer path, *)
(*             fill_traceback_matrix (one action per DP stage) and         *)
(*             traceback;                                                  *)
(*   FillSpec  fill_matrix, one action per recognizer row;                 *)
(*   MathSpec  the ScoreMath primitives bin, get_denominator and the       *)
(*             index arithmetic of the precomputed get_score.              *)
(*                                                                         *)
(* C arrays are functions over 0..n-1 and keep the source's flat indexing  *)
(* (row * stride + column).  Scores are exact integers: they stand for the *)
(* float log-odds values, so sums are exact and comparisons are total.     *)
(***************************************************************************)
EXTENDS Integers, Sequences, FiniteSets, TLC

VARIABLES
  pc,              \* position in the operation being modelled
  len_seq,         \* L, length of the sequence
  cols,            \* rec_lengths: width of each recognizer, 0..num_rec-1
  num_rec,         \* N
  num_alignments,  \* A = len_seq - forward_offset(0) - reverse_offset(0)
  max_length,      \* stride of the connector table
  score_matrix,    \* N x A recognizer scores, flat
  con_matrices,    \* (N-1) x max_length connector scores, flat
  stage,           \* loop variable i of fill_traceback_matrix / fill_matrix
  alignments,      \* cumulative table, A entries
  prev_alignments, \* history: the cumulative table the last stage read
  gap_alignments,  \* gap choice table, (N-1) x A, flat
  rec_scores,      \* output buffer: the cells written so far
  con_scores,      \* output buffer: the cells written so far
  con_lengths,     \* output buffer: the cells written so far
  seq,             \* the sequence (FillSpec)
  pssm,            \* rec_matrices, flat, 4 entries per column (FillSpec)
  seq_reads,       \* sequence indices read by fill_matrix
  cell_writes,     \* score matrix cells <<i, p>> written by fill_matrix
  m_call,          \* MathSpec: the call made
  m_ret            \* MathSpec: what it returned

vars == <<pc, len_seq, cols, num_rec, num_alignments, max_length, score_matrix,
          con_matrices, stage, alignments, prev_alignments, gap_alignments,
          rec_scores,
          con_scores, con_lengths, seq, pssm, seq_reads, cell_writes,
          m_call, m_ret>>

inputVars == <<len_seq, cols, num_rec, num_alignments, max_length,
               con_matrices>>
dpVars    == <<stage, alignments, prev_alignments, gap_alignments>>
outVars   == <<rec_scores, con_scores, con_lengths>>
fillVars  == <<seq, pssm, seq_reads, cell_writes>>
mathVars  == <<m_call, m_ret>>

(***************************************************************************)
(* Bounds of the model.                                                    *)
(***************************************************************************)
MaxCells == 9    \* Spec: num_rec * num_alignments <= MaxCells
MaxRec   == 3    \* FillSpec, MathSpec: number of recognizers
MaxWidth == 2    \* width of a recognizer
MaxLen   == 5    \* FillSpec: length of the sequence
MaxAlign == 4    \* MathSpec: number of alignment positions passed to get_score
MaxBinN  == 12   \* MathSpec: largest n handed to bin
WordBits == 8    \* MathSpec: width of unsigned long long in the model

ScoreVals == {0, 1}   \* values of a score matrix cell

NUM_BASES == 4

NoArray == [x \in {} |-> 0]

\* a[idx] = val on a C array; the domain grows when idx was not held before,
\* so that a write outside the expected cells shows in DOMAIN.
Store(a, idx, val) ==
  [x \in (DOMAIN a) \cup {idx} |-> IF x = idx THEN val ELSE a[x]]

RECURSIVE SumRange(_, _, _)
SumRange(f, lo, hi) == IF lo > hi THEN 0 ELSE f[lo] + SumRange(f, lo + 1, hi)

get_forward_offset(index, c, n) == SumRange(c, 0, index - 1)

get_reverse_offset(index, c, n) == SumRange(c, index, n - 1) - 1

\* max_index with >= for >: the last of several maxima
RECURSIVE MaxIndexLoopLast(_, _, _, _)
MaxIndexLoopLast(arr, size, i, mi) ==
  IF i >= size THEN mi
  ELSE MaxIndexLoopLast(arr, size, i + 1, IF arr[i] >= arr[mi] THEN i ELSE mi)

max_index_last(arr, size) == MaxIndexLoopLast(arr, size, 0, 0)

RECURSIVE MaxIndexLoop(_, _, _, _)
MaxIndexLoop(arr, size, i, mi) ==
  IF i >= size THEN mi
  ELSE MaxIndexLoop(arr, size, i + 1, IF arr[i] > arr[mi] THEN i ELSE mi)

max_index(arr, size) == MaxIndexLoop(arr, size, 0, 0)

(***************************************************************************)
(* get_score, precomputed variant: the connector table cell read and the   *)
(* cells of NUMERATORS read.                                               *)
(***************************************************************************)
ConnectorIndex(curr_conn, max_len, gap_size) == curr_conn * max_len + gap_size

NumeratorIndices(effective_length, n, gap_size) ==
  << (effective_length - (gap_size + 1)) - 1,
     (n - 1) - 1,
     effective_length - (gap_size + 1) - (n - 1) - 1,
     effective_length - 1,
     n - 1,
     effective_length - n - 1 >>

\* The score of connector curr_conn at gap_size.  In both variants get_score
\* is a function of the connector and the gap alone once the call's other
\* arguments are fixed; arr holds, per connector and gap, the integer that
\* stands for the float it returns, at the index the precomputed variant
\* reads (line 75).
get_score(arr, gap_size, max_len, curr_conn) ==
  arr[ConnectorIndex(curr_conn, max_len, gap_size)]

(***************************************************************************)
(* fill_traceback_matrix: one stage i of the DP.                           *)
(***************************************************************************)
\* the candidate without the connector's score
CandidateNoConnector(table, i, j, k) ==
  table[k] + score_matrix[i * num_alignments + j]

\* line 215 / 220: the cumulative score of ending stage i at j coming from k
CandidateFrom(table, i, j, k) ==
  table[k] + get_score(con_matrices, j - k, max_length, i - 1)
    + score_matrix[i * num_alignments + j]

Candidate(i, j, k) == CandidateFrom(alignments, i, j, k)

\* line 220 with <= for <: a later k replaces an equal running maximum
BetterOrEqual(tmax, cand) == tmax <= cand

\* line 220: whether the candidate replaces the running maximum
Better(tmax, cand) == tmax < cand

\* the k loop for one j; acc = <<temp_max_scores[j], temp_gap_lengths[j]>>
RECURSIVE ScanK(_, _, _, _)
ScanK(i, j, k, acc) ==
  IF k > j THEN acc
  ELSE ScanK(i, j, k + 1,
             IF k = 0 THEN <<Candidate(i, j, k), j - k>>
             ELSE IF Better(acc[1], Candidate(i, j, k))
                  THEN <<Candidate(i, j, k), j - k>>
                  ELSE acc)

StageResult(i, j) == ScanK(i, j, 0, <<0, 0>>)

(***************************************************************************)
(* traceback                                                               *)
(***************************************************************************)
\* the loop of lines 144-147; st = <<index, con_lengths>>
RECURSIVE TracebackLoop(_, _)
TracebackLoop(i, st) ==
  IF i < 0 THEN st
  ELSE TracebackLoop(i - 1,
         << st[1] - st[2][i + 2],
            Store(st[2], i + 1,
                  gap_alignments[i * num_alignments + st[1] - st[2][i + 2]]) >>)

\* the optimum written over the last recognizer's slot
OptimumSlotLast(n) == n - 1

\* line 139: the slot of rec_scores that receives the cumulative best score
OptimumSlot(n) == n

\* connector i scored at con_lengths[i], not con_lengths[i + 1]
ConnectorGapShifted(cl, i) == cl[i]

\* line 148 without the subtraction: the second recognizer's position
FirstPositionNoGap(index, gap) == index

\* line 148: the position of the first recognizer
FirstPosition(index, gap) == index - gap

\* line 153: the gap handed to get_score for connector i
ConnectorGap(cl, i) == cl[i + 1]

RECURSIVE ConScoresLoop(_, _, _)
ConScoresLoop(i, cl, cs) ==
  IF i >= num_rec - 1 THEN cs
  ELSE ConScoresLoop(i + 1, cl,
         Store(cs, i, get_score(con_matrices, ConnectorGap(cl, i),
                                max_length, i)))

\* lines 158-161; st = <<gapOffset, rec_scores>>
RECURSIVE RecScoresLoop(_, _, _)
RecScoresLoop(i, cl, st) ==
  IF i >= num_rec THEN st
  ELSE RecScoresLoop(i + 1, cl,
         << st[1] + cl[i],
            Store(st[2], i, score_matrix[i * num_alignments + st[1] + cl[i]]) >>)

(***************************************************************************)
(* Spec: py_calculate from line 392 on.                                    *)
(***************************************************************************)
\* recognizer widths tried: all 1, and 1, 2, .., MaxWidth, 1, 2, ..
WidthChoices(n) ==
  { [i \in 0 .. n - 1 |-> 1], [i \in 0 .. n - 1 |-> 1 + (i % MaxWidth)] }

\* the scores of one connector: best at gap mu, one less per position away
ConnectorTable(mu, n, stride) ==
  [x \in 0 .. (n - 1) * stride - 1 |->
     LET g == x % stride
         m == mu[x \div stride]
     IN  IF g >= m THEN m - g ELSE g - m]

IdleFill ==
  /\ seq = NoArray
  /\ pssm = NoArray
  /\ seq_reads = {}
  /\ cell_writes = {}

IdleMath ==
  /\ m_call = <<>>
  /\ m_ret = 0

Init ==
  /\ pc = "call"
  /\ \E n \in 1 .. MaxCells : \E a \in 1 .. MaxCells :
       /\ n * a <= MaxCells
       /\ num_rec = n
       /\ cols \in WidthChoices(n)
       /\ len_seq = SumRange(cols, 0, n - 1) + a - 1
       /\ num_alignments = len_seq - get_forward_offset(0, cols, n)
                                   - get_reverse_offset(0, cols, n)
       /\ max_length = len_seq
       /\ score_matrix \in [0 .. n * a - 1 -> ScoreVals]
       /\ \E mu \in [0 .. n - 2 -> 0 .. a - 1] :
            con_matrices = ConnectorTable(mu, n, max_length)
  /\ stage = 0
  /\ alignments = NoArray
  /\ prev_alignments = NoArray
  /\ gap_alignments = NoArray
  /\ rec_scores = NoArray
  /\ con_scores = NoArray
  /\ con_lengths = NoArray
  /\ IdleFill
  /\ IdleMath

\* lines 396-400
SingleRecognizer ==
  /\ pc = "call"
  /\ num_rec = 1
  /\ LET best == max_index(score_matrix, num_alignments)
     IN  /\ con_lengths' = Store(con_lengths, 0, best)
         /\ rec_scores' = Store(rec_scores, 0, score_matrix[best])
         /\ con_scores' = Store(con_scores, 0, 0)
  /\ pc' = "done"
  /\ UNCHANGED <<inputVars, score_matrix, dpVars, fillVars, mathVars>>

\* lines 168-190
FillTracebackInit ==
  /\ pc = "call"
  /\ num_rec # 1
  /\ alignments' = [i \in 0 .. num_alignments - 1 |-> score_matrix[i]]
  /\ gap_alignments' = [x \in 0 .. num_alignments * (num_rec - 1) - 1 |-> 0]
  /\ stage' = 1
  /\ pc' = "dp"
  /\ UNCHANGED prev_alignments
  /\ UNCHANGED <<inputVars, score_matrix, outVars, fillVars, mathVars>>

\* one iteration of the loop of lines 200-236
FillTracebackStage ==
  /\ pc = "dp"
  /\ stage < num_rec
  /\ alignments' = [l \in 0 .. num_alignments - 1 |-> StageResult(stage, l)[1]]
  /\ gap_alignments' =
       [x \in DOMAIN gap_alignments |->
          IF x \div num_alignments = stage - 1
          THEN StageResult(stage, x % num_alignments)[2]
          ELSE gap_alignments[x]]
  /\ prev_alignments' = alignments
  /\ stage' = stage + 1
  /\ UNCHANGED <<pc, inputVars, score_matrix, outVars, fillVars, mathVars>>

\* lines 134-148, called at line 240 when the loop is over: the optimum
\* and the gap lengths
TracebackLengths ==
  /\ pc = "dp"
  /\ stage >= num_rec
  /\ LET index == max_index(alignments, num_alignments)
         cl0   == Store(con_lengths, num_rec - 1,
                        gap_alignments[(num_rec - 2) * num_alignments + index])
         st    == TracebackLoop(num_rec - 3, <<index, cl0>>)
     IN  /\ con_lengths' = Store(st[2], 0, FirstPosition(st[1], st[2][1]))
         /\ rec_scores' = Store(rec_scores, OptimumSlot(num_rec),
                                alignments[index])
  /\ pc' = "scores"
  /\ UNCHANGED <<inputVars, score_matrix, dpVars, con_scores, fillVars,
                 mathVars>>

\* lines 150-161: the score of each connector and of each recognizer
TracebackScores ==
  /\ pc = "scores"
  /\ con_scores' = ConScoresLoop(0, con_lengths, con_scores)
  /\ rec_scores' = RecScoresLoop(0, con_lengths, <<0, rec_scores>>)[2]
  /\ pc' = "done"
  /\ UNCHANGED <<inputVars, score_matrix, dpVars, con_lengths, fillVars,
                 mathVars>>

Next ==
  \/ SingleRecognizer
  \/ FillTracebackInit
  \/ FillTracebackStage
  \/ TracebackLengths
  \/ TracebackScores

Spec == Init /\ [][Next]_vars

(***************************************************************************)
(* Properties of Spec                                                      *)
(***************************************************************************)
\* every ordered placement 0 <= p_0 <= .. <= p_(N-1) <= A-1
Placements ==
  { p \in [0 .. num_rec - 1 -> 0 .. num_alignments - 1] :
      \A i \in 1 .. num_rec - 1 : p[i - 1] <= p[i] }

RECURSIVE PlacementScoreFrom(_, _)
PlacementScoreFrom(p, i) ==
  IF i >= num_rec THEN 0
  ELSE score_matrix[i * num_alignments + p[i]]
         + (IF i >= 1 THEN get_score(con_matrices, p[i] - p[i - 1],
                                     max_length, i - 1)
                      ELSE 0)
         + PlacementScoreFrom(p, i + 1)

PlacementScore(p) == PlacementScoreFrom(p, 0)

TracebackDone == pc \in {"scores", "done"} /\ num_rec >= 2

\* C1: for N >= 2 and A >= 1 the optimum traceback reports (rec_scores[N],
\* the maximum entry of the final cumulative table) is the maximum of the
\* placement score over all ordered placements: no placement scores higher
\* and some placement attains it.
C1_OptimumIsMaxOverPlacements ==
  TracebackDone =>
    /\ \A j \in 0 .. num_alignments - 1 : alignments[j] <= rec_scores[num_rec]
    /\ \E j \in 0 .. num_alignments - 1 : alignments[j] = rec_scores[num_rec]
    /\ \A p \in Placements : PlacementScore(p) <= rec_scores[num_rec]
    /\ \E p \in Placements : PlacementScore(p) = rec_scores[num_rec]

\* the optimum is reported for a chain of three recognizers over three
\* positions whose best placement uses a gap and beats the all-zero placement
C1_Witness ==
  /\ TracebackDone
  /\ num_rec >= 3 /\ num_alignments >= 3
  /\ rec_scores[num_rec] >= 2
  /\ \E p \in Placements :
       /\ PlacementScore(p) = rec_scores[num_rec]
       /\ p[num_rec - 1] > p[0]
  /\ \E p \in Placements : PlacementScore(p) < rec_scores[num_rec]

\* the placement the reported lengths describe: p_i = con_lengths[0] + .. +
\* con_lengths[i]
ReportedPlacement == [i \in 0 .. num_rec - 1 |-> SumRange(con_lengths, 0, i)]

\* C2: for N >= 2, after traceback the N recognizer scores plus the N-1
\* connector scores sum to the reported optimum rec_scores[N], and the
\* placement the reported gap lengths describe achieves that optimum.
C2_ScoresSumToOptimum ==
  (pc = "done" /\ num_rec >= 2) =>
    /\ SumRange(rec_scores, 0, num_rec - 1)
         + SumRange(con_scores, 0, num_rec - 2) = rec_scores[num_rec]
    /\ ReportedPlacement \in Placements
    /\ PlacementScore(ReportedPlacement) = rec_scores[num_rec]

\* traceback through two gap choice rows, with a non-zero gap and a
\* non-zero connector score among the reported ones
C2_Witness ==
  /\ pc = "done"
  /\ num_rec >= 3
  /\ \E i \in 1 .. num_rec - 1 : con_lengths[i] > 0
  /\ \E i \in 0 .. num_rec - 2 : con_scores[i] # 0
  /\ rec_scores[num_rec] # 0

\* C3: for N >= 2 and L >= sum of the widths, every length traceback wrote
\* is a non-negative integer, the widths plus the reported lengths fit in L,
\* and every cumulative offset into a row of the score matrix is in 0..A-1.
C3_LengthsFit ==
  TracebackDone =>
    /\ \A i \in 0 .. num_rec - 1 : con_lengths[i] \in Nat
    /\ SumRange(cols, 0, num_rec - 1) + SumRange(con_lengths, 0, num_rec - 1)
         <= len_seq
    /\ SumRange(cols, 0, num_rec - 1) + SumRange(con_lengths, 1, num_rec - 1)
         <= len_seq
    /\ \A i \in 0 .. num_rec - 1 :
         ReportedPlacement[i] \in 0 .. num_alignments - 1

\* lengths reported that fill the sequence exactly, the first recognizer
\* off position 0 and two connectors of different lengths
C3_Witness ==
  /\ TracebackDone
  /\ num_rec >= 3
  /\ con_lengths[0] > 0
  /\ con_lengths[1] # con_lengths[2]
  /\ SumRange(cols, 0, num_rec - 1) + SumRange(con_lengths, 0, num_rec - 1)
       = len_seq

\* the first index at which the single recognizer's score is maximal
FirstArgMax ==
  CHOOSE i \in 0 .. num_alignments - 1 :
    /\ \A j \in 0 .. num_alignments - 1 : score_matrix[j] <= score_matrix[i]
    /\ \A j \in 0 .. i - 1 : score_matrix[j] < score_matrix[i]

\* C4: with N = 1 the reported placement con_lengths[0] is the first arg-max
\* of the recognizer's A scores, the reported recognizer score is the score
\* there, the connector score is 0, and the DP and traceback never ran.
C4_SingleRecognizer ==
  (num_rec = 1) =>
    /\ pc \in {"call", "done"}
    /\ stage = 0 /\ alignments = NoArray /\ gap_alignments = NoArray
    /\ pc = "done" =>
         /\ con_lengths[0] = FirstArgMax
         /\ rec_scores[0] = score_matrix[FirstArgMax]
         /\ con_scores[0] = 0

\* the maximum is attained twice, not at position 0
C4_Witness ==
  /\ num_rec = 1 /\ pc = "done"
  /\ con_lengths[0] > 0
  /\ \E j \in con_lengths[0] + 1 .. num_alignments - 1 :
       score_matrix[j] = score_matrix[con_lengths[0]]

\* C5 as stated: only 0..N-1 of the recognizer scores, 0..N-2 of the
\* connector scores and 0..N-2 of the connector lengths are ever written.
C5_AsStated ==
  /\ DOMAIN rec_scores \subseteq 0 .. num_rec - 1
  /\ DOMAIN con_scores \subseteq 0 .. num_rec - 2
  /\ DOMAIN con_lengths \subseteq 0 .. num_rec - 2

\* C5 amended: for N >= 2 the core writes exactly 0..N of the recognizer
\* scores (slot N is the optimum), 0..N-2 of the connector scores and 0..N-1
\* of the connector lengths (slot 0 is the first recognizer's position); for
\* N = 1 it writes exactly slot 0 of each of the three buffers.
C5_CellsWritten ==
  /\ DOMAIN rec_scores \subseteq
       (IF num_rec = 1 THEN {0} ELSE 0 .. num_rec)
  /\ DOMAIN con_scores \subseteq
       (IF num_rec = 1 THEN {0} ELSE 0 .. num_rec - 2)
  /\ DOMAIN con_lengths \subseteq
       (IF num_rec = 1 THEN {0} ELSE 0 .. num_rec - 1)
  /\ pc = "done" =>
       /\ DOMAIN rec_scores = (IF num_rec = 1 THEN {0} ELSE 0 .. num_rec)
       /\ DOMAIN con_scores = (IF num_rec = 1 THEN {0} ELSE 0 .. num_rec - 2)
       /\ DOMAIN con_lengths = (IF num_rec = 1 THEN {0} ELSE 0 .. num_rec - 1)

\* a traceback over at least three recognizers has written its buffers
C5_Witness ==
  /\ pc = "done" /\ num_rec >= 3
  /\ num_rec \in DOMAIN rec_scores
  /\ num_rec - 1 \in DOMAIN con_lengths

\* the stage completed last, and the starting positions k whose candidate
\* for ending position j was maximal in it
LastStage == stage - 1

TiedStarts(j) ==
  { k \in 0 .. j :
      \A k2 \in 0 .. j : CandidateFrom(prev_alignments, LastStage, j, k2)
                           <= CandidateFrom(prev_alignments, LastStage, j, k) }

StageCompleted == pc \in {"dp", "scores", "done"} /\ stage >= 2

CommittedGap(j) == gap_alignments[(LastStage - 1) * num_alignments + j]

\* C8 as stated: the gap committed for (i, j) is the smallest gap among the
\* starting positions tied for the maximal candidate.
C8_AsStated ==
  StageCompleted =>
    \A j \in 0 .. num_alignments - 1 :
      \A k \in TiedStarts(j) : CommittedGap(j) <= j - k

\* C8 amended: the gap committed for (i, j) is the largest gap among the
\* starting positions tied for the maximal candidate (the first, smallest k).
C8_LargestTiedGap ==
  StageCompleted =>
    \A j \in 0 .. num_alignments - 1 :
      /\ j - CommittedGap(j) \in TiedStarts(j)
      /\ \A k \in TiedStarts(j) : CommittedGap(j) >= j - k

\* a second or later stage in which, for some ending position, two starting
\* positions other than the seed k = 0 tie for the maximum
C8_Witness ==
  /\ StageCompleted
  /\ LastStage >= 2
  /\ \E j \in 0 .. num_alignments - 1 :
       /\ Cardinality(TiedStarts(j)) >= 2
       /\ 0 \notin TiedStarts(j)

(***************************************************************************)
(* FillSpec: fill_matrix, called at line 389 on the zeroed score matrix.   *)
(***************************************************************************)
Alphabet == {"A", "g", "N"}

\* the column of a pssm row the switch of lines 271-288 selects; -1: no case
BaseColumn(ch) ==
  CASE ch \in {"A", "a"} -> 0
    [] ch \in {"G", "g"} -> 1
    [] ch \in {"C", "c"} -> 2
    [] ch \in {"T", "t"} -> 3
    [] OTHER -> -1

\* seq[idx]; a read past the buffer yields whatever byte lies there
SeqAt(idx, junk) == IF idx \in DOMAIN seq THEN seq[idx] ELSE junk

\* lines 269-289: the score of recognizer i placed at j
RECURSIVE ColumnLoop(_, _, _, _, _)
ColumnLoop(i, j, k, forward_offset, junk) ==
  IF k >= cols[i] THEN 0
  ELSE (LET b == BaseColumn(SeqAt(j + k, junk))
        IN  IF b >= 0 THEN pssm[(forward_offset + k) * NUM_BASES + b] ELSE 0)
       + ColumnLoop(i, j, k + 1, forward_offset, junk)

\* line 268 with <= for <
RowEndInclusive(length, reverse_offset) == length - reverse_offset + 1

\* line 268: the first j the loop does not visit
RowEnd(length, reverse_offset) == length - reverse_offset

\* the j loop of lines 268-291; st = <<score_matrix, seq_reads, cell_writes>>
RECURSIVE RowLoop(_, _, _, _, _, _)
RowLoop(i, j, forward_offset, reverse_offset, junk, st) ==
  IF j >= RowEnd(len_seq, reverse_offset) THEN st
  ELSE RowLoop(i, j + 1, forward_offset, reverse_offset, junk,
         << Store(st[1], (i * num_alignments) + j - forward_offset,
                  ColumnLoop(i, j, 0, forward_offset, junk)),
            st[2] \cup { j + k : k \in 0 .. cols[i] - 1 },
            st[3] \cup { <<i, j - forward_offset>> } >>)

\* the two recognizer matrices tried: every column scores one base at 1
PssmChoices(n) ==
  { [x \in 0 .. NUM_BASES * SumRange(cols, 0, n - 1) - 1 |->
       IF x % NUM_BASES = hot THEN 1 ELSE 0] : hot \in {0, 1} }

IdleDP ==
  /\ max_length = 0
  /\ con_matrices = NoArray
  /\ alignments = NoArray
  /\ prev_alignments = NoArray
  /\ gap_alignments = NoArray
  /\ rec_scores = NoArray
  /\ con_scores = NoArray
  /\ con_lengths = NoArray

\* py_calculate lines 374-388 for any sequence length and widths
FillInit ==
  /\ pc = "fill"
  /\ num_rec \in 1 .. MaxRec
  /\ cols \in [0 .. num_rec - 1 -> 1 .. MaxWidth]
  /\ len_seq \in 0 .. MaxLen
  /\ seq \in [0 .. len_seq - 1 -> Alphabet]
  /\ pssm \in PssmChoices(num_rec)
  /\ num_alignments = len_seq - get_forward_offset(0, cols, num_rec)
                              - get_reverse_offset(0, cols, num_rec)
  /\ score_matrix = [x \in 0 .. num_alignments * num_rec - 1 |-> 0]
  /\ stage = 0
  /\ seq_reads = {}
  /\ cell_writes = {}
  /\ IdleDP
  /\ IdleMath

\* one iteration of the loop of lines 264-292
FillMatrixRow ==
  /\ pc = "fill"
  /\ stage < num_rec
  /\ \E junk \in Alphabet :
       LET forward_offset == get_forward_offset(stage, cols, num_rec)
           reverse_offset == get_reverse_offset(stage, cols, num_rec)
           st == RowLoop(stage, forward_offset, forward_offset, reverse_offset,
                         junk, <<score_matrix, seq_reads, cell_writes>>)
       IN  /\ score_matrix' = st[1]
           /\ seq_reads' = st[2]
           /\ cell_writes' = st[3]
  /\ stage' = stage + 1
  /\ pc' = IF stage + 1 < num_rec THEN "fill" ELSE "filled"
  /\ UNCHANGED <<inputVars, alignments, prev_alignments, gap_alignments,
                 outVars, seq, pssm, mathVars>>

FillNext == FillMatrixRow

FillSpec == FillInit /\ [][FillNext]_vars

\* C6: for every sequence length and widths, degenerate geometries (A <= 0)
\* included, fill_matrix reads only sequence indices in 0..L-1 and writes
\* only cells (i, p) with 0 <= p < A; with A <= 0 nothing is scored.
C6_FillStaysInRange ==
  /\ seq_reads \subseteq 0 .. len_seq - 1
  /\ \A w \in cell_writes :
       w[1] \in 0 .. num_rec - 1 /\ w[2] \in 0 .. num_alignments - 1
  /\ DOMAIN score_matrix \subseteq 0 .. num_rec * num_alignments - 1
  /\ num_alignments <= 0 => (seq_reads = {} /\ cell_writes = {})
  /\ (pc = "filled" /\ num_alignments >= 1) =>
       cell_writes = (0 .. num_rec - 1) \X (0 .. num_alignments - 1)

\* fill_matrix has returned on a geometry with a negative number of positions
\* for a non-empty sequence
C6_Witness ==
  /\ pc = "filled"
  /\ num_rec >= 2
  /\ len_seq >= 2
  /\ num_alignments < 0
  /\ get_forward_offset(num_rec - 1, cols, num_rec) > len_seq

(***************************************************************************)
(* MathSpec: bin, get_denominator and the indices get_score reads.         *)
(***************************************************************************)
Modulus == 2 ^ WordBits

ULONG_MAX == Modulus - 1

\* lines 21-30; n and c are unsigned, WordBits wide
RECURSIVE BinLoop(_, _, _, _)
BinLoop(n, k, i, c) ==
  IF i > k THEN c
  ELSE IF c \div i > ULONG_MAX \div n THEN 0
  ELSE BinLoop((n - 1) % Modulus, k, i + 1,
               ((((c \div i) * n) % Modulus)
                  + ((((c % i) * n) % Modulus) \div i)) % Modulus)

bin(n, k) == BinLoop(n, k, 1, 1)

\* lines 62-66; the float returned is kept as the quotient's two operands
get_denominator(d, n, length) ==
  IF 1 <= d /\ d <= length - n + 1
  THEN [kind |-> "ratio", num |-> bin(length - d, n - 1),
        den |-> bin(length, n)]
  ELSE [kind |-> "floor", num |-> 1, den |-> 10000]

\* lines 169-176
EffectiveLength(length, c, n) == length - SumRange(c, 0, n - 1)

\* the calls made: bin(n, k) with 0 <= k <= n; get_denominator(d, N, L);
\* get_score as fill_traceback_matrix (line 213) and traceback (line 153)
\* call it in the precomputed variant, for n recognizers of width w over a
\* alignment positions: a gap in 0..a-1 of connector curr_conn
BinCalls ==
  { <<"bin", n, k>> : n \in 0 .. MaxBinN, k \in 0 .. MaxBinN }

DenominatorCalls ==
  { <<"get_denominator", d, n, length>> :
      d \in 0 .. MaxBinN + 1, n \in 1 .. MaxBinN, length \in 0 .. MaxBinN }

ScoreCalls ==
  { <<"get_score", n, w, a, gap, curr_conn, stride>> :
      n \in 2 .. MaxRec, w \in 1 .. MaxWidth, a \in 1 .. MaxAlign,
      gap \in 0 .. MaxAlign - 1, curr_conn \in 0 .. MaxRec - 2,
      stride \in 1 .. MaxAlign + 1 }

MathInit ==
  /\ pc = "math"
  /\ \/ m_call \in { c \in BinCalls : c[3] <= c[2] }
     \/ m_call \in DenominatorCalls
     \/ m_call \in { c \in ScoreCalls :
                       /\ c[5] <= c[4] - 1
                       /\ c[6] <= c[2] - 2
                       /\ c[7] \in c[4] .. c[4] + 1 }
  /\ m_ret = 0
  /\ len_seq = 0
  /\ cols = NoArray
  /\ num_rec = 0
  /\ num_alignments = 0
  /\ score_matrix = NoArray
  /\ stage = 0
  /\ IdleDP
  /\ IdleFill

CallBin ==
  /\ pc = "math"
  /\ m_call[1] = "bin"
  /\ m_ret' = bin(m_call[2], m_call[3])
  /\ pc' = "returned"
  /\ UNCHANGED <<inputVars, score_matrix, dpVars, outVars, fillVars, m_call>>

CallGetDenominator ==
  /\ pc = "math"
  /\ m_call[1] = "get_denominator"
  /\ m_ret' = get_denominator(m_call[2], m_call[3], m_call[4])
  /\ pc' = "returned"
  /\ UNCHANGED <<inputVars, score_matrix, dpVars, outVars, fillVars, m_call>>

\* the geometry of a get_score call: N, A, the gap, the connector, the stride
\* and the effective length fill_traceback_matrix derives
ScoreCallRec    == m_call[2]
ScoreCallAlign  == m_call[4]
ScoreCallGap    == m_call[5]
ScoreCallConn   == m_call[6]
ScoreCallStride == m_call[7]
ScoreCallEffective ==
  EffectiveLength(ScoreCallRec * m_call[3] + ScoreCallAlign - 1,
                  [i \in 0 .. ScoreCallRec - 1 |-> m_call[3]], ScoreCallRec)

CallGetScore ==
  /\ pc = "math"
  /\ m_call[1] = "get_score"
  /\ m_ret' = [connector |-> ConnectorIndex(ScoreCallConn, ScoreCallStride,
                                            ScoreCallGap),
               numerators |-> NumeratorIndices(ScoreCallEffective,
                                               ScoreCallRec, ScoreCallGap)]
  /\ pc' = "returned"
  /\ UNCHANGED <<inputVars, score_matrix, dpVars, outVars, fillVars, m_call>>

MathNext ==
  \/ CallBin
  \/ CallGetDenominator
  \/ CallGetScore

MathSpec == MathInit /\ [][MathNext]_vars

Returned(f) == pc = "returned" /\ m_call[1] = f

\* C7: bin is symmetric, bin(n, k) = bin(n, n-k) for 0 <= k <= n, also when
\* one of the two calls meets the overflow test and returns the sentinel 0.
C7_BinSymmetric ==
  Returned("bin") => m_ret = bin(m_call[2], m_call[2] - m_call[3])

\* C9: in get_denominator(d, N, L) with 1 <= d <= L-N+1, when bin returns
\* the sentinel 0 for C(L-d, N-1) or for C(L, N), the value returned is the
\* 0.0001 floor, never a quotient with the sentinel in it.
C9_SentinelGivesFloor ==
  (/\ Returned("get_denominator")
   /\ 1 <= m_call[2] /\ m_call[2] <= m_call[4] - m_call[3] + 1
   /\ \/ bin(m_call[4] - m_call[2], m_call[3] - 1) = 0
      \/ bin(m_call[4], m_call[3]) = 0)
  => m_ret.kind = "floor"

\* C10: for every gap in 0..A-1 the DP or traceback passes to the
\* precomputed get_score (N >= 2), every index into NUMERATORS is
\* non-negative and, the stride being at least A, the connector table index
\* stays in connector curr_conn's row.
C10_IndicesInRange ==
  Returned("get_score") =>
    /\ \A x \in 1 .. 6 : m_ret.numerators[x] >= 0
    /\ m_ret.connector \in ScoreCallConn * ScoreCallStride
                             .. (ScoreCallConn + 1) * ScoreCallStride - 1

=============================================================================
